---- MODULE Spec2Model ----
(***************************************************************************)
(* A model of the as-lark assembler: the Lark visitor callbacks that       *)
(* collect statements, data declarations and identifiers                   *)
(* (assembler.py: statement, data_decl, identifier), the second half of    *)
(* Assembler.visit that relocates the data labels, resolves the operand    *)
(* tokens and encodes the words, the encoder _opcode_to_machine, and the   *)
(* part of main() that writes the words or reports the exception.          *)
(*                                                                         *)
(* A token is a record [type, text]; text is the token's string as a       *)
(* sequence of one-character strings, so that int(token[1:]),              *)
(* int(token, 0) and int(token) are computed from the characters.          *)
(* A label name is the text of its CNAME token.                            *)
(***************************************************************************)
EXTENDS Integers, Sequences, FiniteSets, TLC

VARIABLES
    program,            \* the parse tree: the statement and data_decl nodes in source order
    pc,                 \* position of main() / Assembler.visit
    idx,                \* index of the traversal or of the running for loop
    _statement_counter,
    _data_counter,
    _labels,
    _data_decls,
    _identifiers,
    _instructions,
    _data,
    _machine_code,
    args,               \* the local `args` of Assembler.visit
    args_bound,         \* whether the local `args` has been assigned
    error,              \* the exception raised out of Assembler.visit
    warnings,           \* name -> number of "unused data" warnings printed
    output,             \* the words written to the output file or printed by main()
    exit_status,        \* -1 while running, then the process exit status
    e_op,               \* encoder harness: opcode
    e_args,             \* encoder harness: operand list
    e_word              \* encoder harness: the word returned

vars == <<program, pc, idx, _statement_counter, _data_counter, _labels, _data_decls,
          _identifiers, _instructions, _data, _machine_code, args, args_bound, error,
          warnings, output, exit_status, e_op, e_args, e_word>>

asmVars == <<program, pc, idx, _statement_counter, _data_counter, _labels, _data_decls,
             _identifiers, _instructions, _data, _machine_code, args, args_bound, error,
             warnings, output, exit_status>>

encVars == <<e_op, e_args, e_word>>

-----------------------------------------------------------------------------
(* Bounds of the explored programs *)

MaxStmts == 2

MaxData == 2

BigStmts == 33

(* Program constants *)

OperandMin == 0

OperandMax == 31

WordMask == 2047

CutoffNum == 6

CutoffDen == 10

-----------------------------------------------------------------------------
(* Integer arithmetic of the Python operators <<, | and & on naturals *)

RECURSIVE Pow2(_)
Pow2(n) == IF n = 0 THEN 1 ELSE 2 * Pow2(n - 1)

Shl(x, n) == x * Pow2(n)

RECURSIVE BitOr(_, _)
BitOr(x, y) ==
    IF x = 0 THEN y
    ELSE IF y = 0 THEN x
    ELSE (IF (x % 2 = 1) \/ (y % 2 = 1) THEN 1 ELSE 0) + 2 * BitOr(x \div 2, y \div 2)

RECURSIVE BitAnd(_, _)
BitAnd(x, y) ==
    IF x = 0 \/ y = 0 THEN 0
    ELSE (IF (x % 2 = 1) /\ (y % 2 = 1) THEN 1 ELSE 0) + 2 * BitAnd(x \div 2, y \div 2)

-----------------------------------------------------------------------------
(* Assembler.OpCode *)

OpCode ==
    [ADD |-> 0, SUB |-> 1, SLT |-> 2, LI |-> 3, LW |-> 4, SW |-> 5, BEQ |-> 6,
     BNE |-> 7, PUSH |-> 8, POP |-> 9, J |-> 10, JAL |-> 11, JR |-> 12, NOP |-> 13]

OpNames == DOMAIN OpCode

RTypeOps == {"ADD", "SUB", "SLT"}

ITypeOps == {"LI", "LW", "SW", "BEQ", "BNE", "PUSH", "POP"}

JTypeOps == {"J", "JAL", "JR"}

(* r_type with src1 shifted by the width of a 3-bit field instead of by 2 *)
r_type_src1_shift3(op, a) ==
    BitOr(BitOr(BitOr(Shl(OpCode[op], 7), Shl(a[1], 5)), Shl(a[2], 3)),
          BitAnd(a[3], WordMask))

(* r_type: Python parses  a << 7 | b << 5 | c << 2 | d & m  as                 *)
(* (a << 7) | (b << 5) | (c << 2) | (d & m): the mask applies to args[2] only *)
r_type(op, a) ==
    BitOr(BitOr(BitOr(Shl(OpCode[op], 7), Shl(a[1], 5)), Shl(a[2], 2)),
          BitAnd(a[3], WordMask))

i_type(op, a) ==
    LET machine0 == BitOr(Shl(OpCode[op], 7), Shl(a[1], 5))
        machine  == IF Len(a) > 1 THEN BitOr(machine0, a[2]) ELSE machine0
    IN  BitAnd(machine, WordMask)

j_type(op, a) ==
    LET machine0 == Shl(OpCode[op], 7)
        machine  == IF Len(a) > 0 THEN BitOr(machine0, a[1]) ELSE machine0
    IN  BitAnd(machine, WordMask)

(* the NOP case: (NOP << 7) | (args[0] & mask), or (NOP << 7) & mask *)
nop_type(op, a) ==
    IF Len(a) > 0
    THEN BitOr(Shl(OpCode["NOP"], 7), BitAnd(a[1], WordMask))
    ELSE BitAnd(Shl(OpCode["NOP"], 7), WordMask)

_opcode_to_machine(op, a) ==
    IF op \in RTypeOps THEN r_type(op, a)
    ELSE IF op \in ITypeOps THEN i_type(op, a)
    ELSE IF op \in JTypeOps THEN j_type(op, a)
    ELSE nop_type(op, a)

-----------------------------------------------------------------------------
(* Token text and Python's int() *)

Chars == <<"0", "1", "2", "3", "4", "5", "6", "7", "8", "9",
           "a", "b", "c", "d", "e", "f", "o", "r", "x">>

(* position of a character in ASCII order, among the characters used *)
Ord(c) == CHOOSE i \in 1..Len(Chars) : Chars[i] = c

DigitVal(c) ==
    CASE c = "0" -> 0 [] c = "1" -> 1 [] c = "2" -> 2 [] c = "3" -> 3 [] c = "4" -> 4
      [] c = "5" -> 5 [] c = "6" -> 6 [] c = "7" -> 7 [] c = "8" -> 8 [] c = "9" -> 9
      [] c = "a" -> 10 [] c = "b" -> 11 [] c = "c" -> 12 [] c = "d" -> 13
      [] c = "e" -> 14 [] c = "f" -> 15 [] OTHER -> 99

RECURSIVE DigitsValue(_, _, _)
DigitsValue(text, base, acc) ==
    IF text = <<>> THEN acc
    ELSE DigitsValue(Tail(text), base, acc * base + DigitVal(Head(text)))

(* int(text, base) for base in {2, 8, 10, 16}: ok = FALSE is a ValueError *)
IntOfDigits(text, base) ==
    IF text # <<>> /\ \A k \in 1..Len(text) : DigitVal(text[k]) < base
    THEN [ok |-> TRUE, value |-> DigitsValue(text, base, 0)]
    ELSE [ok |-> FALSE, value |-> -1]

(* int(token): decimal only *)
IntBase10(text) == IntOfDigits(text, 10)

(* int(token, 0): the base is taken from the 0x / 0o / 0b prefix *)
IntBase0(text) ==
    IF Len(text) >= 2 /\ text[1] = "0" /\ text[2] = "x"
    THEN IntOfDigits(SubSeq(text, 3, Len(text)), 16)
    ELSE IF Len(text) >= 2 /\ text[1] = "0" /\ text[2] = "o"
    THEN IntOfDigits(SubSeq(text, 3, Len(text)), 8)
    ELSE IF Len(text) >= 2 /\ text[1] = "0" /\ text[2] = "b"
    THEN IntOfDigits(SubSeq(text, 3, Len(text)), 2)
    ELSE IntOfDigits(text, 10)

(* lexicographic order of two strings, as Python compares str *)
RECURSIVE StrLess(_, _)
StrLess(s, t) ==
    IF t = <<>> THEN FALSE
    ELSE IF s = <<>> THEN TRUE
    ELSE IF Ord(Head(s)) # Ord(Head(t)) THEN Ord(Head(s)) < Ord(Head(t))
    ELSE StrLess(Tail(s), Tail(t))

-----------------------------------------------------------------------------
(* difflib.get_close_matches(token, all_keys, n=1), cutoff 0.6 *)

None == <<>>

(* length of the common run of a from i and b from j, inside a[..ahi], b[..bhi] *)
RECURSIVE RunLen(_, _, _, _, _, _)
RunLen(a, b, i, j, ahi, bhi) ==
    IF i > ahi \/ j > bhi \/ a[i] # b[j] THEN 0
    ELSE 1 + RunLen(a, b, i + 1, j + 1, ahi, bhi)

(* the order among matching blocks: longer first, then earliest in a, then in b *)
BlockBefore(kc, kd, c, d) ==
    \/ kc > kd
    \/ kc = kd /\ c[1] < d[1]
    \/ kc = kd /\ c[1] = d[1] /\ c[2] <= d[2]

LongestBlock(a, b, alo, ahi, blo, bhi) ==
    CHOOSE c \in (alo..ahi) \X (blo..bhi) :
        \A d \in (alo..ahi) \X (blo..bhi) :
            BlockBefore(RunLen(a, b, c[1], c[2], ahi, bhi),
                        RunLen(a, b, d[1], d[2], ahi, bhi), c, d)

BlockAt(best, a, b, ahi, bhi) ==
    [i |-> best[1], j |-> best[2], size |-> RunLen(a, b, best[1], best[2], ahi, bhi)]

(* SequenceMatcher.find_longest_match: the longest block, earliest in a, then in b *)
find_longest_match(a, b, alo, ahi, blo, bhi) ==
    BlockAt(LongestBlock(a, b, alo, ahi, blo, bhi), a, b, ahi, bhi)

(* the number of matched characters summed over get_matching_blocks: the longest *)
(* block m, then the same to its left and to its right                           *)
RECURSIVE MatchCount(_, _, _, _, _, _)
RECURSIVE MatchCountAround(_, _, _, _, _, _, _)
MatchCountAround(m, a, b, alo, ahi, blo, bhi) ==
    IF m.size = 0 THEN 0
    ELSE m.size
         + MatchCount(a, b, alo, m.i - 1, blo, m.j - 1)
         + MatchCount(a, b, m.i + m.size, ahi, m.j + m.size, bhi)

MatchCount(a, b, alo, ahi, blo, bhi) ==
    IF alo > ahi \/ blo > bhi THEN 0
    ELSE MatchCountAround(find_longest_match(a, b, alo, ahi, blo, bhi),
                          a, b, alo, ahi, blo, bhi)

(* SequenceMatcher(a = x, b = word).ratio() = 2 * matches / (len(a) + len(b)) *)
RatioNum(x, word) == 2 * MatchCount(x, word, 1, Len(x), 1, Len(word))

RatioDen(x, word) == Len(x) + Len(word)

(* nx/dx > ny/dy, or the ratios are equal and the tie is won *)
FractionGreater(nx, dx, ny, dy, tie) ==
    nx * dy > ny * dx \/ (nx * dy = ny * dx /\ tie)

(* (score, x) > (score', y) as the tuples heapq.nlargest compares *)
ScoredGreater(x, y, word) ==
    FractionGreater(RatioNum(x, word), RatioDen(x, word),
                    RatioNum(y, word), RatioDen(y, word), StrLess(y, x))

CloseEnough(word, possibilities) ==
    {x \in possibilities : RatioNum(x, word) * CutoffDen >= CutoffNum * RatioDen(x, word)}

BestOf(close, word) ==
    IF close = {} THEN None
    ELSE CHOOSE x \in close : \A y \in close \ {x} : ScoredGreater(x, y, word)

get_close_matches(word, possibilities) == BestOf(CloseEnough(word, possibilities), word)

-----------------------------------------------------------------------------
(* Parse trees *)

Reg(t) == [type |-> "REGISTER", text |-> t]

Num(t) == [type |-> "NUMBER", text |-> t]

Name(t) == [type |-> "CNAME", text |-> t]

NoToken == [type |-> "NONE", text |-> <<>>]

(* a statement node: an optional label (None when absent) and one instruction *)
Stmt(label, op, tokens) ==
    [kind |-> "statement", label |-> label, op |-> op, tokens |-> tokens]

(* a data_decl node: a label and one literal token *)
DataDecl(label, token) ==
    [kind |-> "data_decl", label |-> label, op |-> "NOP", tokens |-> <<token>>]

(* an identifier subtree: its child is the CNAME token *)
Ident(token) ==
    [kind |-> "identifier", label |-> None, op |-> "NOP", tokens |-> <<token>>]

StmtNodes ==
    { Stmt(None,      "ADD",  <<Reg(<<"r", "1">>), Reg(<<"r", "2">>), Reg(<<"r", "3">>)>>),
      Stmt(<<"a">>,   "LI",   <<Reg(<<"r", "1">>), Num(<<"0", "x", "1", "f">>)>>),
      Stmt(None,      "LI",   <<Reg(<<"r", "1">>), Num(<<"9", "9">>)>>),
      Stmt(None,      "J",    <<Name(<<"a">>)>>),
      Stmt(<<"a">>,   "LW",   <<Reg(<<"r", "2">>), Name(<<"a", "b">>)>>),
      Stmt(None,      "JAL",  <<Name(<<"b">>)>>),
      Stmt(None,      "PUSH", <<Reg(<<"r", "3", "2">>)>>) }

DataNodes ==
    { DataDecl(<<"a">>,      Num(<<"7">>)),
      DataDecl(<<"a", "b">>, Num(<<"5">>)),
      DataDecl(<<"a", "b">>, Num(<<"9", "9">>)) }

SeqsUpTo(nodes, max) == UNION { [1..n -> nodes] : n \in 0..max }

(* up to MaxStmts statements and MaxData data declarations, the statements    *)
(* before the declarations or behind them                                     *)
SmallPrograms ==
    { stmts \o decls : stmts \in SeqsUpTo(StmtNodes, MaxStmts),
                       decls \in SeqsUpTo(DataNodes, MaxData) }
    \cup
    { decls \o stmts : stmts \in SeqsUpTo(StmtNodes, MaxStmts),
                       decls \in SeqsUpTo(DataNodes, MaxData) }

(* n statements, all nop but statement 2 which is  j <ref>;  statement `at`   *)
(* carries the label a; then the data declarations                            *)
BigProgram(n, at, ref, decls) ==
    [i \in 1..n |->
        Stmt(IF i = at THEN <<"a">> ELSE None,
             IF i = 2 THEN "J" ELSE "NOP",
             IF i = 2 THEN <<Name(ref)>> ELSE <<>>)] \o decls

BigPrograms ==
    { BigProgram(n, at, ref, decls) :
        n \in (BigStmts - 2)..BigStmts,
        at \in {1, BigStmts - 2, BigStmts},
        ref \in {<<"a">>, <<"a", "b">>},
        decls \in { <<DataDecl(<<"a", "b">>, Num(<<"5">>))>>,
                    <<DataDecl(<<"a">>, Num(<<"7">>)), DataDecl(<<"a", "b">>, Num(<<"5">>))>> } }

Programs == SmallPrograms \cup BigPrograms

RECURSIVE IdentifierTrees(_)
IdentifierTrees(toks) ==
    IF toks = <<>> THEN <<>>
    ELSE (IF Head(toks).type = "CNAME" THEN <<Ident(Head(toks))>> ELSE <<>>)
         \o IdentifierTrees(Tail(toks))

RECURSIVE AllIdentifierTrees(_)
AllIdentifierTrees(p) ==
    IF p = <<>> THEN <<>>
    ELSE (IF Head(p).kind = "statement" THEN IdentifierTrees(Head(p).tokens) ELSE <<>>)
         \o AllIdentifierTrees(Tail(p))

(* Visitor.visit calls the callbacks bottom-up (Tree.iter_subtrees): the      *)
(* identifier subtrees, which lie below the statements, come first, then the  *)
(* statement and data_decl nodes in source order                              *)
Traversal(p) == AllIdentifierTrees(p) \o p

-----------------------------------------------------------------------------
(* Symbol tables and exceptions *)

EmptyDict == [n \in {} |-> 0]

DictSet(d, key, value) ==
    [n \in (DOMAIN d) \cup {key} |-> IF n = key THEN value ELSE d[n]]

NoError == [kind |-> "none", token |-> NoToken, closest |-> None]

Raise(kind, token, closest) == [kind |-> kind, token |-> token, closest |-> closest]

(* the range check without its upper bound *)
InRange_no_upper(value) == OperandMin <= value

(* the range check against the 7-bit address field instead of 31 *)
InRange_7bit(value) == OperandMin <= value /\ value <= 127

InRange(value) == OperandMin <= value /\ value <= OperandMax

_find_closest_label(text) ==
    get_close_matches(text, (DOMAIN _labels) \cup (DOMAIN _data_decls))

(* the lookup with the data table tried first *)
_find_label_addr_data_first(token) ==
    IF token.text \in DOMAIN _data_decls
    THEN [error |-> NoError, value |-> _data_decls[token.text]]
    ELSE IF token.text \in DOMAIN _labels
    THEN [error |-> NoError, value |-> _labels[token.text]]
    ELSE [error |-> Raise("UnknownLabel", token, _find_closest_label(token.text)),
          value |-> -1]

(* the address, or the UnknownLabelException *)
_find_label_addr(token) ==
    IF token.text \in DOMAIN _labels
    THEN [error |-> NoError, value |-> _labels[token.text]]
    ELSE IF token.text \in DOMAIN _data_decls
    THEN [error |-> NoError, value |-> _data_decls[token.text]]
    ELSE [error |-> Raise("UnknownLabel", token, _find_closest_label(token.text)),
          value |-> -1]

(* the value of int(...), or the ValueError it raises *)
IntResult(v, token) ==
    [error |-> IF v.ok THEN NoError ELSE Raise("ValueError", token, None),
     value |-> v.value]

(* match token.type *)
TokenValue(token) ==
    IF token.type = "REGISTER" THEN IntResult(IntBase10(Tail(token.text)), token)
    ELSE IF token.type = "CNAME" THEN _find_label_addr(token)
    ELSE IF token.type = "NUMBER" THEN IntResult(IntBase0(token.text), token)
    ELSE [error |-> Raise("ValueError", token, None), value |-> -1]

(* if not 0 <= value <= 31: raise ImmediateOutOfRangeException *)
RangeChecked(r, token) ==
    IF r.error # NoError THEN r
    ELSE IF ~InRange(r.value)
    THEN [error |-> Raise("ImmediateOutOfRange", token, None), value |-> r.value]
    ELSE r

(* the body of  for token in tokens *)
ResolveToken(token) == RangeChecked(TokenValue(token), token)

(* the loop over the tokens of one instruction: the args built, or the first error *)
RECURSIVE ResolveTokens(_, _)
RECURSIVE ResolveRest(_, _, _)
ResolveRest(r, tokens, acc) ==
    IF r.error # NoError THEN [error |-> r.error, args |-> acc]
    ELSE ResolveTokens(Tail(tokens), Append(acc, r.value))

ResolveTokens(tokens, acc) ==
    IF tokens = <<>> THEN [error |-> NoError, args |-> acc]
    ELSE ResolveRest(ResolveToken(Head(tokens)), tokens, acc)

-----------------------------------------------------------------------------
(* main() runs the assembler on one program *)

Idle ==
    /\ idx = 1
    /\ _statement_counter = 0
    /\ _data_counter = 0
    /\ _labels = EmptyDict
    /\ _data_decls = EmptyDict
    /\ _identifiers = <<>>
    /\ _instructions = <<>>
    /\ _data = <<>>
    /\ _machine_code = <<>>
    /\ args = <<>>
    /\ args_bound = FALSE
    /\ error = NoError
    /\ warnings = EmptyDict
    /\ output = <<>>
    /\ exit_status = -1

Init ==
    /\ program \in Programs
    /\ pc = "traverse"
    /\ Idle
    /\ e_op = "NOP"
    /\ e_args = <<>>
    /\ e_word = -1

Traversing == pc = "traverse" /\ idx <= Len(Traversal(program))

(* the subtree the visitor is at *)
tree == Traversal(program)[idx]

(* Assembler.identifier *)
identifier ==
    /\ Traversing
    /\ tree.kind = "identifier"
    /\ _identifiers' = Append(_identifiers, tree.tokens[1].text)
    /\ idx' = idx + 1
    /\ UNCHANGED <<program, pc, _statement_counter, _data_counter, _labels, _data_decls,
                   _instructions, _data, _machine_code, args, args_bound, error,
                   warnings, output, exit_status>>
    /\ UNCHANGED encVars

(* statement inserting the instruction at the head of the list *)
statement_prepend ==
    /\ Traversing
    /\ tree.kind = "statement"
    /\ _labels' = IF tree.label # None
                  THEN DictSet(_labels, tree.label, _statement_counter)
                  ELSE _labels
    /\ _instructions' = <<<<tree.op, tree.tokens>>>> \o _instructions
    /\ _statement_counter' = _statement_counter + 1
    /\ idx' = idx + 1
    /\ UNCHANGED <<program, pc, _data_counter, _data_decls, _identifiers, _data,
                   _machine_code, args, args_bound, error, warnings, output, exit_status>>
    /\ UNCHANGED encVars

(* Assembler.statement *)
statement ==
    /\ Traversing
    /\ tree.kind = "statement"
    /\ _labels' = IF tree.label # None
                  THEN DictSet(_labels, tree.label, _statement_counter)
                  ELSE _labels
    /\ _instructions' = Append(_instructions, <<tree.op, tree.tokens>>)
    /\ _statement_counter' = _statement_counter + 1
    /\ idx' = idx + 1
    /\ UNCHANGED <<program, pc, _data_counter, _data_decls, _identifiers, _data,
                   _machine_code, args, args_bound, error, warnings, output, exit_status>>
    /\ UNCHANGED encVars

(* data_decl binding the label after the counter is incremented *)
data_decl_after_increment ==
    /\ Traversing
    /\ tree.kind = "data_decl"
    /\ _data_decls' = DictSet(_data_decls, tree.label, _data_counter + 1)
    /\ _data' = Append(_data, <<"NOP", tree.tokens[1]>>)
    /\ _data_counter' = _data_counter + 1
    /\ idx' = idx + 1
    /\ UNCHANGED <<program, pc, _statement_counter, _labels, _identifiers, _instructions,
                   _machine_code, args, args_bound, error, warnings, output, exit_status>>
    /\ UNCHANGED encVars

(* Assembler.data_decl *)
data_decl ==
    /\ Traversing
    /\ tree.kind = "data_decl"
    /\ _data_decls' = DictSet(_data_decls, tree.label, _data_counter)
    /\ _data' = Append(_data, <<"NOP", tree.tokens[1]>>)
    /\ _data_counter' = _data_counter + 1
    /\ idx' = idx + 1
    /\ UNCHANGED <<program, pc, _statement_counter, _labels, _identifiers, _instructions,
                   _machine_code, args, args_bound, error, warnings, output, exit_status>>
    /\ UNCHANGED encVars

(* visit without the relocation of the data labels *)
relocate_no_shift ==
    /\ pc = "traverse"
    /\ idx > Len(Traversal(program))
    /\ pc' = "resolve"
    /\ idx' = 1
    /\ UNCHANGED <<program, _statement_counter, _data_counter, _labels, _data_decls,
                   _identifiers, _instructions, _data, _machine_code, args, args_bound,
                   error, warnings, output, exit_status>>
    /\ UNCHANGED encVars

(* Assembler.visit, "Move data section after instructions in memory" *)
relocate ==
    /\ pc = "traverse"
    /\ idx > Len(Traversal(program))
    /\ _data_decls' = [k \in DOMAIN _data_decls |-> _data_decls[k] + _statement_counter]
    /\ pc' = "resolve"
    /\ idx' = 1
    /\ UNCHANGED <<program, _statement_counter, _data_counter, _labels, _identifiers,
                   _instructions, _data, _machine_code, args, args_bound, error,
                   warnings, output, exit_status>>
    /\ UNCHANGED encVars

(* the end of one iteration of either loop: the exception leaves visit, or the *)
(* entry is appended to _machine_code                                          *)
Emit(op, a, exc) ==
    IF exc # NoError
    THEN /\ error' = exc
         /\ pc' = "raised"
         /\ UNCHANGED <<_machine_code, idx>>
    ELSE /\ _machine_code' = Append(_machine_code, <<_opcode_to_machine(op, a), <<op, a>>>>)
         /\ idx' = idx + 1
         /\ UNCHANGED <<error, pc>>

ResolveStep(op, r) ==
    /\ args' = r.args
    /\ args_bound' = TRUE
    /\ Emit(op, r.args, r.error)

(* Assembler.visit, "Resolve labels": one iteration of the loop over _instructions *)
resolve_instruction ==
    /\ pc = "resolve"
    /\ idx <= Len(_instructions)
    /\ ResolveStep(_instructions[idx][1], ResolveTokens(_instructions[idx][2], <<>>))
    /\ UNCHANGED <<program, _statement_counter, _data_counter, _labels, _data_decls,
                   _identifiers, _instructions, _data, warnings, output, exit_status>>
    /\ UNCHANGED encVars

(* int(token), the range check, then the read of the local args *)
DataError(v, token) ==
    IF ~v.ok THEN Raise("ValueError", token, None)
    ELSE IF ~InRange(v.value) THEN Raise("ImmediateOutOfRange", token, None)
    ELSE IF ~args_bound THEN Raise("UnboundLocalError", NoToken, None)
    ELSE NoError

FillStep(op, token) == Emit(op, args, DataError(IntBase10(token.text), token))

(* Assembler.visit, "Fill data section": one iteration of the loop over _data; *)
(* the word is built from the local args left by the instruction loop          *)
fill_data ==
    /\ pc = "resolve"
    /\ idx > Len(_instructions)
    /\ idx <= Len(_instructions) + Len(_data)
    /\ FillStep(_data[idx - Len(_instructions)][1], _data[idx - Len(_instructions)][2])
    /\ UNCHANGED <<program, _statement_counter, _data_counter, _labels, _data_decls,
                   _identifiers, _instructions, _data, args, args_bound, warnings,
                   output, exit_status>>
    /\ UNCHANGED encVars

(* every declared data label, referenced or not *)
Unused_all_declared == DOMAIN _data_decls

(* the set  declared - used  of Assembler.visit *)
Unused == (DOMAIN _data_decls) \ { _identifiers[k] : k \in 1..Len(_identifiers) }

(* Assembler.visit, "Warn for unused data", and the return to main() *)
warn_unused ==
    /\ pc = "resolve"
    /\ idx > Len(_instructions) + Len(_data)
    /\ warnings' = [item \in Unused |-> 1]
    /\ pc' = "write"
    /\ idx' = 1
    /\ UNCHANGED <<program, _statement_counter, _data_counter, _labels, _data_decls,
                   _identifiers, _instructions, _data, _machine_code, args, args_bound,
                   error, output, exit_status>>
    /\ UNCHANGED encVars

(* main(): one iteration of  for line, _ in code  (outfile.write or print) *)
write_line ==
    /\ pc = "write"
    /\ idx <= Len(_machine_code)
    /\ output' = Append(output, _machine_code[idx][1])
    /\ idx' = idx + 1
    /\ UNCHANGED <<program, pc, _statement_counter, _data_counter, _labels, _data_decls,
                   _identifiers, _instructions, _data, _machine_code, args, args_bound,
                   error, warnings, exit_status>>
    /\ UNCHANGED encVars

(* main() returns after the last line *)
finish ==
    /\ pc = "write"
    /\ idx > Len(_machine_code)
    /\ exit_status' = 0
    /\ pc' = "exited"
    /\ UNCHANGED <<program, idx, _statement_counter, _data_counter, _labels, _data_decls,
                   _identifiers, _instructions, _data, _machine_code, args, args_bound,
                   error, warnings, output>>
    /\ UNCHANGED encVars

(* the handler writing the words assembled so far before it exits *)
handle_exception_flush ==
    /\ pc = "raised"
    /\ output' = [e \in 1..Len(_machine_code) |-> _machine_code[e][1]]
    /\ exit_status' = 1
    /\ pc' = "exited"
    /\ UNCHANGED <<program, idx, _statement_counter, _data_counter, _labels, _data_decls,
                   _identifiers, _instructions, _data, _machine_code, args, args_bound,
                   error, warnings>>
    /\ UNCHANGED encVars

(* main():  except Exception as e: print(Formatter.fmt_exc(...)); sys.exit(1) *)
handle_exception ==
    /\ pc = "raised"
    /\ exit_status' = 1
    /\ pc' = "exited"
    /\ UNCHANGED <<program, idx, _statement_counter, _data_counter, _labels, _data_decls,
                   _identifiers, _instructions, _data, _machine_code, args, args_bound,
                   error, warnings, output>>
    /\ UNCHANGED encVars

Next ==
    \/ identifier
    \/ statement
    \/ data_decl
    \/ relocate
    \/ resolve_instruction
    \/ fill_data
    \/ warn_unused
    \/ write_line
    \/ finish
    \/ handle_exception

Spec == Init /\ [][Next]_vars

-----------------------------------------------------------------------------
(* The encoder alone, on every operand list of each opcode's shape *)

Operands == OperandMin..OperandMax

Shapes(op) ==
    IF op \in RTypeOps THEN [1..3 -> Operands]
    ELSE IF op \in ITypeOps THEN [1..1 -> Operands] \cup [1..2 -> Operands]
    ELSE {<<>>} \cup [1..1 -> Operands]

InitEnc ==
    /\ program = <<>>
    /\ pc = "encode"
    /\ Idle
    /\ e_op \in OpNames
    /\ e_args \in Shapes(e_op)
    /\ e_word = -1

encode ==
    /\ pc = "encode"
    /\ e_word' = _opcode_to_machine(e_op, e_args)
    /\ pc' = "encoded"
    /\ UNCHANGED <<program, idx, _statement_counter, _data_counter, _labels, _data_decls,
                   _identifiers, _instructions, _data, _machine_code, args, args_bound,
                   error, warnings, output, exit_status, e_op, e_args>>

NextEnc == encode

SpecEnc == InitEnc /\ [][NextEnc]_vars

-----------------------------------------------------------------------------
(* What the source program says, read off the parse tree alone *)

IsStatement(node) == node.kind = "statement"

IsDataDecl(node) == node.kind = "data_decl"

Statements == SelectSeq(program, IsStatement)

Declarations == SelectSeq(program, IsDataDecl)

S == Len(Statements)

D == Len(Declarations)

CodeLabels == {Statements[i].label : i \in 1..S} \ {None}

DataLabels == {Declarations[j].label : j \in 1..D}

(* the index of the last statement carrying the label n *)
CodeAddr(n) ==
    (CHOOSE i \in 1..S :
        Statements[i].label = n /\ \A k \in (i + 1)..S : Statements[k].label # n) - 1

(* the index of the last declaration of n, behind the S statements *)
DataAddr(n) ==
    S - 1 + (CHOOSE j \in 1..D :
                Declarations[j].label = n /\ \A k \in (j + 1)..D : Declarations[k].label # n)

Declared(n) == n \in CodeLabels \cup DataLabels

LabelAddr(n) == IF n \in CodeLabels THEN CodeAddr(n) ELSE DataAddr(n)

(* the number a well-formed operand token stands for *)
OperandValue(token) ==
    IF token.type = "REGISTER" THEN IntBase10(Tail(token.text)).value
    ELSE IF token.type = "NUMBER" THEN IntBase0(token.text).value
    ELSE LabelAddr(token.text)

Unknown(token) == token.type = "CNAME" /\ ~Declared(token.text)

OutOfRange(token) == ~Unknown(token) /\ OperandValue(token) \notin 0..31

Resolvable(token) == ~Unknown(token) /\ OperandValue(token) \in 0..31

(* the operand list of statement i, when all its tokens are resolvable *)
OperandsOf(i) == [k \in 1..Len(Statements[i].tokens) |-> OperandValue(Statements[i].tokens[k])]

(* the first token of a list that cannot be resolved; 0 when there is none *)
FirstBad(tokens) ==
    IF \A k \in 1..Len(tokens) : Resolvable(tokens[k]) THEN 0
    ELSE CHOOSE k \in 1..Len(tokens) :
            ~Resolvable(tokens[k]) /\ \A m \in 1..(k - 1) : Resolvable(tokens[m])

DataLiteral(j) == Declarations[j].tokens[1]

DataValue(j) == IntBase10(DataLiteral(j).text).value

Collected == pc # "traverse" /\ pc # "encode" /\ pc # "encoded"

VisitSucceeded == pc \in {"write", "exited"} /\ error = NoError

(* visit stopped in the loop over the instructions, at statement idx *)
FailedAtStatement == pc \in {"raised", "exited"} /\ error # NoError /\ idx <= S

(* visit stopped in the loop over the data, at declaration idx - S *)
FailedAtData == pc \in {"raised", "exited"} /\ error # NoError /\ idx > S

References(n) ==
    \E i \in 1..S : \E k \in 1..Len(Statements[i].tokens) :
        Statements[i].tokens[k] = Name(n)

-----------------------------------------------------------------------------
(* Claims *)

(* C1: when visit succeeds, the entry of every data declaration whose literal *)
(* v is in [0,31] is the pair (NOP<<7 | v, (NOP, [v])).                       *)
C1_DataEntryCarriesLiteral ==
    VisitSucceeded =>
        \A j \in 1..D :
            DataValue(j) \in 0..31 =>
                /\ Len(_machine_code) >= S + j
                /\ _machine_code[S + j] =
                       <<BitOr(Shl(OpCode["NOP"], 7), DataValue(j)), <<"NOP", <<DataValue(j)>>>>>>

(* the inverse of each format's layout: the opcode field and the operand fields *)
DecodeOpcode(word) == (word \div 128) % 16

DecodeFields(op, word) ==
    IF op \in RTypeOps THEN <<(word \div 32) % 4, (word \div 4) % 8, word % 4>>
    ELSE IF op \in ITypeOps THEN <<(word \div 32) % 4, word % 32>>
    ELSE <<word % 128>>

(* the decoded fields are the operands given, and 0 where an operand is absent *)
RoundTrips(op, a, word) ==
    /\ DecodeOpcode(word) = OpCode[op]
    /\ \A k \in 1..Len(DecodeFields(op, word)) :
          DecodeFields(op, word)[k] = IF k <= Len(a) THEN a[k] ELSE 0

(* every operand fits the width of the field the layout gives it *)
FitsFields(op, a) ==
    IF op \in RTypeOps THEN a[1] <= 3 /\ a[2] <= 7 /\ a[3] <= 3
    ELSE IF op \in ITypeOps THEN a[1] <= 3
    ELSE TRUE

(* C2, as stated: for every opcode and every operand list of its shape with   *)
(* values in [0,31], decoding the encoded word gives back the opcode and the  *)
(* operands.                                                                   *)
C2_RoundTripAnyOperands ==
    pc = "encoded" => RoundTrips(e_op, e_args, e_word)

(* C2, amended: the round trip holds for the operand lists with values in     *)
(* [0,31] whose values fit their fields: R dest <= 3, src1 <= 7, src2 <= 3;   *)
(* I reg <= 3; the immediate and the J / NOP payload anywhere in [0,31].      *)
C2_RoundTripInFieldWidth ==
    (pc = "encoded" /\ FitsFields(e_op, e_args)) => RoundTrips(e_op, e_args, e_word)

(* add r1, r2, r3 has been encoded, to 00000101011 *)
C2_Witness ==
    /\ pc = "encoded"
    /\ e_op = "ADD"
    /\ e_args = <<1, 2, 3>>
    /\ e_word = 43
    /\ FitsFields(e_op, e_args)

(* the operand list recorded as the origin of entry e of machine_code *)
OriginArgs(e) == _machine_code[e][2][2]

(* the statements whose entry has been appended *)
Encoded == 1..(IF Len(_machine_code) < S THEN Len(_machine_code) ELSE S)

CNamePositions(i) ==
    {k \in 1..Len(Statements[i].tokens) : Statements[i].tokens[k].type = "CNAME"}

ReferencedNames ==
    UNION { {Statements[i].tokens[k].text : k \in CNamePositions(i)} : i \in 1..S }

FailingTokens == Statements[idx].tokens

(* C3: an operand token or data literal whose value is outside [0,31] makes   *)
(* visit fail with ImmediateOutOfRange carrying that token when it is         *)
(* resolved, no entry is appended for it, and every operand in the origin     *)
(* list of every entry of machine_code is in [0,31].                          *)
C3_RangeCheckedOperands ==
    /\ \A e \in 1..Len(_machine_code) :
          \A k \in 1..Len(OriginArgs(e)) : OriginArgs(e)[k] \in 0..31
    /\ \A i \in Encoded :
          \A k \in 1..Len(Statements[i].tokens) : ~OutOfRange(Statements[i].tokens[k])
    /\ VisitSucceeded => \A j \in 1..D : DataValue(j) \in 0..31
    /\ (FailedAtStatement /\ OutOfRange(FailingTokens[FirstBad(FailingTokens)])) =>
          /\ error = Raise("ImmediateOutOfRange", FailingTokens[FirstBad(FailingTokens)], None)
          /\ Len(_machine_code) = idx - 1
    /\ (FailedAtData /\ DataValue(idx - S) \notin 0..31) =>
          /\ error = Raise("ImmediateOutOfRange", DataLiteral(idx - S), None)
          /\ Len(_machine_code) = idx - 1
    /\ error.kind = "ImmediateOutOfRange" =>
          \/ FailedAtStatement /\ OutOfRange(error.token)
          \/ FailedAtData /\ DataValue(idx - S) \notin 0..31

(* li r1, 99 behind an encoded statement: the run has failed on the literal *)
C3_Witness ==
    /\ pc = "exited"
    /\ FailedAtStatement
    /\ error = Raise("ImmediateOutOfRange", Num(<<"9", "9">>), None)
    /\ Len(_machine_code) = 1
    /\ idx = 2

(* C4: once UnknownLabel or ImmediateOutOfRange is raised no word is written  *)
(* or printed and the process exits with status 1; words are written only     *)
(* after visit has completed for the whole program.                           *)
C4_NoOutputOnFatalError ==
    /\ error.kind \in {"UnknownLabel", "ImmediateOutOfRange"} =>
          /\ pc \in {"raised", "exited"}
          /\ output = <<>>
          /\ exit_status = IF pc = "exited" THEN 1 ELSE -1
    /\ output # <<>> =>
          /\ VisitSucceeded
          /\ Len(_machine_code) = S + D
          /\ \A e \in 1..Len(output) : output[e] = _machine_code[e][1]

(* the offending instruction is not the first: an entry exists, no word is out *)
C4_Witness ==
    /\ pc = "exited"
    /\ exit_status = 1
    /\ error.kind = "UnknownLabel"
    /\ _machine_code # <<>>
    /\ output = <<>>

(* C5: when visit succeeds machine_code has S + D entries; entry i is the     *)
(* encoding of statement i with its opcode as origin, entry S + j is the      *)
(* NOP-tagged entry of data declaration j.                                    *)
C5_OneEntryPerNodeInOrder ==
    VisitSucceeded =>
        /\ Len(_machine_code) = S + D
        /\ \A i \in 1..S :
              /\ _machine_code[i][2][1] = Statements[i].op
              /\ Len(OriginArgs(i)) = Len(Statements[i].tokens)
              /\ \A k \in 1..Len(OriginArgs(i)) :
                    OriginArgs(i)[k] = OperandValue(Statements[i].tokens[k])
              /\ _machine_code[i][1] = _opcode_to_machine(Statements[i].op, OriginArgs(i))
        /\ \A j \in 1..D : _machine_code[S + j][2][1] = "NOP"

C5_Witness ==
    /\ pc = "exited"
    /\ VisitSucceeded
    /\ S >= 2
    /\ D >= 1
    /\ Statements[1].op # Statements[2].op
    /\ Len(output) = S + D

(* C6, as stated: in a program that assembles, a symbolic operand naming a    *)
(* code label resolves below S and one naming a data label resolves to S or   *)
(* above.                                                                      *)
C6_LabelRegions ==
    VisitSucceeded =>
        \A i \in 1..S : \A k \in CNamePositions(i) :
            /\ Statements[i].tokens[k].text \in CodeLabels => OriginArgs(i)[k] < S
            /\ Statements[i].tokens[k].text \in DataLabels => OriginArgs(i)[k] >= S

(* C6, amended: a symbolic operand naming a code label resolves below S; one  *)
(* naming a data label that is not also a code label resolves to S or above.  *)
C6_LabelRegionsUnlessAliased ==
    VisitSucceeded =>
        \A i \in 1..S : \A k \in CNamePositions(i) :
            /\ Statements[i].tokens[k].text \in CodeLabels => OriginArgs(i)[k] < S
            /\ Statements[i].tokens[k].text \in DataLabels \ CodeLabels =>
                  OriginArgs(i)[k] >= S

(* both a code label and a data-only label are referenced by an assembled program *)
C6_Witness ==
    /\ VisitSucceeded
    /\ \E n \in CodeLabels : References(n)
    /\ \E n \in DataLabels \ CodeLabels : References(n)

(* C7: a symbolic operand resolves to its code-label address when the name is *)
(* a code label, otherwise to the relocated data address when it is a data    *)
(* label, otherwise visit fails with UnknownLabel carrying the token and a    *)
(* suggestion that is absent or a name of one of the two tables.              *)
C7_LookupOrder ==
    /\ \A i \in Encoded : \A k \in CNamePositions(i) :
          /\ Declared(Statements[i].tokens[k].text)
          /\ OriginArgs(i)[k] =
                IF Statements[i].tokens[k].text \in CodeLabels
                THEN CodeAddr(Statements[i].tokens[k].text)
                ELSE DataAddr(Statements[i].tokens[k].text)
    /\ (FailedAtStatement /\ Unknown(FailingTokens[FirstBad(FailingTokens)])) =>
          /\ error.kind = "UnknownLabel"
          /\ error.token = FailingTokens[FirstBad(FailingTokens)]
          /\ error.closest \in {None} \cup CodeLabels \cup DataLabels
    /\ error.kind = "UnknownLabel" => FailedAtStatement /\ Unknown(error.token)

(* jal b with ab declared: the exception carries the suggestion ab *)
C7_Witness ==
    /\ pc = "exited"
    /\ error.kind = "UnknownLabel"
    /\ error.token = Name(<<"b">>)
    /\ error.closest = <<"a", "b">>

(* the warnings a successful visit must have printed *)
C8_Warned ==
    warnings = IF VisitSucceeded THEN [n \in DataLabels \ ReferencedNames |-> 1]
               ELSE EmptyDict

(* C8: when visit succeeds exactly one UnusedData warning has been emitted    *)
(* for each data label that no identifier references and none for any other  *)
(* label, and emitting the warnings leaves machine_code unchanged.            *)
C8_UnusedDataWarnings ==
    /\ []C8_Warned
    /\ [][(pc = "resolve" /\ pc' = "write") => _machine_code' = _machine_code]_vars

(* one data label is warned about, another is referenced and is not *)
C8_Witness ==
    /\ pc = "exited"
    /\ exit_status = 0
    /\ DOMAIN warnings # {}
    /\ DOMAIN warnings # DataLabels

(* C9: no operand is resolved before every statement and data declaration is  *)
(* collected and the data addresses are relocated: the tables then hold the   *)
(* final address of every label, so a reference resolves to the same address  *)
(* before and after the declaration of its label.                             *)
C9_ResolutionAfterCollection ==
    /\ pc = "traverse" => _machine_code = <<>> /\ error = NoError /\ ~args_bound
    /\ Collected =>
          /\ _statement_counter = S
          /\ _data_counter = D
          /\ Len(_instructions) = S
          /\ Len(_data) = D
          /\ DOMAIN _labels = CodeLabels
          /\ DOMAIN _data_decls = DataLabels
          /\ \A n \in CodeLabels : _labels[n] = CodeAddr(n)
          /\ \A n \in DataLabels : _data_decls[n] = DataAddr(n)
    /\ \A i \in Encoded : \A k \in CNamePositions(i) :
          OriginArgs(i)[k] = LabelAddr(Statements[i].tokens[k].text)

(* a reference to a code label declared at a later statement, and a reference *)
(* to a data label, both resolved                                             *)
C9_Witness ==
    /\ VisitSucceeded
    /\ \E i \in 1..S : \E k \in CNamePositions(i) :
          /\ Statements[i].tokens[k].text \in CodeLabels
          /\ CodeAddr(Statements[i].tokens[k].text) > i - 1
    /\ \E i \in 1..S : \E k \in CNamePositions(i) :
          /\ Statements[i].tokens[k].text \in DataLabels \ CodeLabels
          /\ OriginArgs(i)[k] = DataAddr(Statements[i].tokens[k].text)

Fails == pc # "write" /\ exit_status # 0 /\ output = <<>>

(* a symbolic operand whose address is above 31 raises ImmediateOutOfRange,   *)
(* and a reference to a code label bound to statement index 32 or above fails *)
C10_AddressAbove31 ==
    /\ (/\ FailedAtStatement
        /\ FailingTokens[FirstBad(FailingTokens)].type = "CNAME"
        /\ OutOfRange(FailingTokens[FirstBad(FailingTokens)])) =>
          error = Raise("ImmediateOutOfRange", FailingTokens[FirstBad(FailingTokens)], None)
    /\ (\E n \in CodeLabels : References(n) /\ CodeAddr(n) >= 32) => Fails

(* C10, as stated: a label address above 31 raises ImmediateOutOfRange also   *)
(* in J, JAL and JR; a program referencing a code label bound to statement    *)
(* index 32 or above fails, and so does every program with 32 or more         *)
(* statements that references any data label; no word is emitted.             *)
C10_AnyDataLabelFails ==
    /\ C10_AddressAbove31
    /\ (S >= 32 /\ \E n \in DataLabels : References(n)) => Fails

(* C10, amended: as stated, but for the data labels that are not also code    *)
(* labels: a name declared in both tables resolves to the code label.         *)
C10_UnaliasedDataLabelFails ==
    /\ C10_AddressAbove31
    /\ (S >= 32 /\ \E n \in DataLabels \ CodeLabels : References(n)) => Fails

(* j ab with 32 or more statements before the data: the jump target is out of range *)
C10_Witness ==
    /\ pc = "exited"
    /\ exit_status = 1
    /\ S >= 32
    /\ Statements[idx].op \in JTypeOps
    /\ error = Raise("ImmediateOutOfRange", Name(<<"a", "b">>), None)
    /\ <<"a", "b">> \in DataLabels \ CodeLabels

====
